---- MODULE Spec2Model ----
(***************************************************************************)
(* Model of wordcount::count (src/src/lib.rs).                             *)
(*                                                                         *)
(* count(input, option) reads a byte source line by line, decodes each     *)
(* line as UTF-8 (panicking when the read of a line returns an error) and  *)
(* counts characters, \w+ matches or whole lines in a                      *)
(* HashMap<String, usize>.                                                 *)
(*                                                                         *)
(* The source is a byte sequence together with the offset after which its  *)
(* reads return an io::Error (NoFail for a source that never fails), the   *)
(* number of errors of kind Interrupted it returns there (read_until       *)
(* retries those) and whether an error of another kind follows them.       *)
(*                                                                         *)
(* Bytes are integers 0..255, a String is a sequence of Unicode scalar     *)
(* values (integers), a table is a function from Strings to counts.        *)
(***************************************************************************)
EXTENDS Integers, Sequences, FiniteSets, TLC

VARIABLES input, fail, intr, fatal, option, pos, line, at, freqs, pc, result

vars ==
  <<input, fail, intr, fatal, option, pos, line, at, freqs, pc, result>>

(***************************************************************************)
(* Bounds of the checked inputs.                                           *)
(***************************************************************************)
MaxLen ==
  4

\* Sources of at most this many bytes are also tried with a failing read.
MaxFailLen ==
  3

\* A failing read returns at most this many Interrupted errors, or returns
\* them forever.
MaxIntr ==
  1

\* The bytes the bounded inputs are built from: "\n", "\r", " ", "A", "a",
\* and 0xC3, 0xA9 (together the UTF-8 encoding of U+00E9; in any other
\* arrangement a malformed sequence).
Alphabet ==
  {10, 13, 32, 65, 97, 195, 169}

BoundedInputs ==
  UNION {[1..n -> Alphabet] : n \in 0..MaxLen}

\* Inputs of the doc example and the unit tests.
DocExample ==
  <<97, 97, 32, 98, 98, 32, 99, 99, 32, 98, 98>>

Works3Input ==
  <<97, 97, 32, 99, 99, 32, 100, 100, 32, 99, 99>>

UnknownWordsInput ==
  <<97, 249, 144, 128, 227, 129, 130>>

\* Longer inputs: two equal lines, "ab", a CRLF text, a text with U+00D7
\* (a non-ASCII character outside \w) between two U+00E9, a malformed
\* second line, Greek letters, "e" followed by the combining mark U+0301,
\* the connector U+203F between two letters, Hiragana with the joiner
\* U+200D, "a" followed by the Cyrillic letter U+1C89, and a line made of
\* the connector U+203F alone.
ExtraInputs ==
  { <<104, 101, 108, 108, 111, 10, 104, 101, 108, 108, 111>>,
    <<97, 98>>,
    <<97, 98, 13, 10, 99, 100, 10, 97, 98, 10>>,
    <<195, 169, 195, 151, 195, 169, 95, 49>>,
    <<97, 10, 249, 10, 97>>,
    <<97, 32, 206, 177, 206, 178, 32, 97>>,
    <<101, 204, 129, 32, 101>>,
    <<97, 226, 128, 191, 98>>,
    <<227, 129, 130, 226, 128, 141, 227, 129, 130, 32, 217, 160>>,
    <<97, 225, 178, 137>>,
    <<226, 128, 191, 10, 97>> }

Inputs ==
  BoundedInputs \cup {DocExample, Works3Input, UnknownWordsInput} \cup ExtraInputs

\* The source never returns an io::Error.
NoFail ==
  0 - 1

\* Where the source may fail: never, or after delivering k of its bytes
\* (k = Len: when asked for more at the end of the data).
FailPoints(bs) ==
  IF Len(bs) <= MaxFailLen THEN {NoFail} \cup (0..Len(bs)) ELSE {NoFail}

\* The source returns Interrupted on every retry.
Forever ==
  0 - 1

\* What a failing read returns, as <<intr, fatal>>: intr errors of kind
\* Interrupted (or Interrupted forever), followed by an error of another
\* kind if fatal and by the rest of the data if not.
FailKinds ==
  {<<0, TRUE>>} \cup ((1..MaxIntr) \X BOOLEAN) \cup {<<Forever, FALSE>>}

CountOption ==
  {"Char", "Word", "Line"}

(***************************************************************************)
(* str::from_utf8 as used by BufRead::read_line: the decoded scalar        *)
(* values, or failure on a malformed sequence.                             *)
(***************************************************************************)
Utf8Width(b) ==
  IF b < 128 THEN 1
  ELSE IF b >= 194 /\ b <= 223 THEN 2
  ELSE IF b >= 224 /\ b <= 239 THEN 3
  ELSE IF b >= 240 /\ b <= 244 THEN 4
  ELSE 0

IsCont(b) ==
  b >= 128 /\ b <= 191

\* A well-formed sequence starts at byte i of bs.
Utf8ValidAt(bs, i) ==
  LET w == Utf8Width(bs[i])
  IN  /\ w > 0
      /\ i + w - 1 <= Len(bs)
      /\ \A k \in 1..(w - 1) : IsCont(bs[i + k])
      /\ (bs[i] = 224) => bs[i + 1] >= 160
      /\ (bs[i] = 237) => bs[i + 1] <= 159
      /\ (bs[i] = 240) => bs[i + 1] >= 144
      /\ (bs[i] = 244) => bs[i + 1] <= 143

Utf8Scalar(bs, i) ==
  LET w == Utf8Width(bs[i])
  IN  IF w = 1 THEN bs[i]
      ELSE IF w = 2 THEN (bs[i] - 192) * 64 + (bs[i + 1] - 128)
      ELSE IF w = 3 THEN (bs[i] - 224) * 4096 + (bs[i + 1] - 128) * 64
                         + (bs[i + 2] - 128)
      ELSE (bs[i] - 240) * 262144 + (bs[i + 1] - 128) * 4096
           + (bs[i + 2] - 128) * 64 + (bs[i + 3] - 128)

\* Decodes bs from byte i on, acc being the scalar values decoded so far.
RECURSIVE Utf8From(_, _, _)
Utf8From(bs, i, acc) ==
  IF i > Len(bs) THEN [ok |-> TRUE, s |-> acc]
  ELSE IF ~Utf8ValidAt(bs, i) THEN [ok |-> FALSE, s |-> <<>>]
  ELSE Utf8From(bs, i + Utf8Width(bs[i]), Append(acc, Utf8Scalar(bs, i)))

from_utf8(bs) ==
  Utf8From(bs, 1, <<>>)

(***************************************************************************)
(* BufRead::lines(): read_until(b'\n'), decode, strip "\n" then "\r".      *)
(***************************************************************************)
\* Reads through the last "\n" of the source instead of the next one.
read_until_last(bs, p) ==
  LET nl == {i \in (p + 1)..Len(bs) : bs[i] = 10}
  IN  IF nl = {} THEN Len(bs) ELSE CHOOSE i \in nl : \A j \in nl : j <= i

\* Offset of the last byte read_until consumes when reading from offset p
\* (p bytes already consumed, p < Len(bs)): the next "\n", or the end.
read_until(bs, p) ==
  LET nl == {i \in (p + 1)..Len(bs) : bs[i] = 10}
  IN  IF nl = {} THEN Len(bs) ELSE CHOOSE i \in nl : \A j \in nl : i <= j

\* Only the "\n" is popped.
strip_keep_cr(s) ==
  IF Len(s) > 0 /\ s[Len(s)] = 10 THEN SubSeq(s, 1, Len(s) - 1) ELSE s

\* Lines::next: if the buffer ends with "\n" pop it, and then pop one "\r".
strip_terminator(s) ==
  IF Len(s) > 0 /\ s[Len(s)] = 10
  THEN LET t == SubSeq(s, 1, Len(s) - 1)
       IN  IF Len(t) > 0 /\ t[Len(t)] = 13 THEN SubSeq(t, 1, Len(t) - 1) ELSE t
  ELSE s

\* The read of the line at offset p runs into the failure of the source:
\* the failure is still ahead (n Interrupted errors or a fatal one are left)
\* and the "\n" is not found before it (an unterminated last line needs one
\* more read to see the end).
read_fails(bs, fl, n, ft, p) ==
  /\ fl # NoFail
  /\ ft \/ n # 0
  /\ p >= Len(bs) \/ ~(bs[read_until(bs, p)] = 10 /\ read_until(bs, p) <= fl)

\* input.lines().next() at offset p of a source that fails after fl bytes
\* with n Interrupted errors left: read_line reads through the next "\n" or
\* to the end.  An Interrupted error makes read_until try again
\* ("interrupted"); an error of another kind or bytes that are not UTF-8
\* give Err; no bytes at all give None; else the line.
lines_next(bs, fl, n, ft, p) ==
  IF read_fails(bs, fl, n, ft, p)
  THEN IF n # 0 THEN [kind |-> "interrupted", line |-> <<>>, pos |-> p]
       ELSE [kind |-> "err", line |-> <<>>, pos |-> fl]
  ELSE IF p >= Len(bs) THEN [kind |-> "none", line |-> <<>>, pos |-> p]
  ELSE LET e == read_until(bs, p)
           d == from_utf8(SubSeq(bs, p + 1, e))
       IN  IF ~d.ok THEN [kind |-> "err", line |-> <<>>, pos |-> e]
           ELSE [kind |-> "ok", line |-> strip_terminator(d.s), pos |-> e]

(***************************************************************************)
(* Regex \w+ and find_iter.                                                *)
(***************************************************************************)
\* The ranges of scalar values of the Unicode class \w (Unicode 16.0):
\* Alphabetic, M (marks), Nd (decimal digits), Pc (connector punctuation)
\* and Join_Control.
PerlWord ==
  { <<48, 57>>, <<65, 90>>, <<95, 95>>, <<97, 122>>, <<170, 170>>,
    <<181, 181>>, <<186, 186>>, <<192, 214>>, <<216, 246>>, <<248, 705>>,
    <<710, 721>>, <<736, 740>>, <<748, 748>>, <<750, 750>>, <<768, 884>>,
    <<886, 887>>, <<890, 893>>, <<895, 895>>, <<902, 902>>, <<904, 906>>,
    <<908, 908>>, <<910, 929>>, <<931, 1013>>, <<1015, 1153>>, <<1155, 1327>>,
    <<1329, 1366>>, <<1369, 1369>>, <<1376, 1416>>, <<1425, 1469>>,
    <<1471, 1471>>, <<1473, 1474>>, <<1476, 1477>>, <<1479, 1479>>,
    <<1488, 1514>>, <<1519, 1522>>, <<1552, 1562>>, <<1568, 1641>>,
    <<1646, 1747>>, <<1749, 1756>>, <<1759, 1768>>, <<1770, 1788>>,
    <<1791, 1791>>, <<1808, 1866>>, <<1869, 1969>>, <<1984, 2037>>,
    <<2042, 2042>>, <<2045, 2045>>, <<2048, 2093>>, <<2112, 2139>>,
    <<2144, 2154>>, <<2160, 2183>>, <<2185, 2190>>, <<2199, 2273>>,
    <<2275, 2403>>, <<2406, 2415>>, <<2417, 2435>>, <<2437, 2444>>,
    <<2447, 2448>>, <<2451, 2472>>, <<2474, 2480>>, <<2482, 2482>>,
    <<2486, 2489>>, <<2492, 2500>>, <<2503, 2504>>, <<2507, 2510>>,
    <<2519, 2519>>, <<2524, 2525>>, <<2527, 2531>>, <<2534, 2545>>,
    <<2556, 2556>>, <<2558, 2558>>, <<2561, 2563>>, <<2565, 2570>>,
    <<2575, 2576>>, <<2579, 2600>>, <<2602, 2608>>, <<2610, 2611>>,
    <<2613, 2614>>, <<2616, 2617>>, <<2620, 2620>>, <<2622, 2626>>,
    <<2631, 2632>>, <<2635, 2637>>, <<2641, 2641>>, <<2649, 2652>>,
    <<2654, 2654>>, <<2662, 2677>>, <<2689, 2691>>, <<2693, 2701>>,
    <<2703, 2705>>, <<2707, 2728>>, <<2730, 2736>>, <<2738, 2739>>,
    <<2741, 2745>>, <<2748, 2757>>, <<2759, 2761>>, <<2763, 2765>>,
    <<2768, 2768>>, <<2784, 2787>>, <<2790, 2799>>, <<2809, 2815>>,
    <<2817, 2819>>, <<2821, 2828>>, <<2831, 2832>>, <<2835, 2856>>,
    <<2858, 2864>>, <<2866, 2867>>, <<2869, 2873>>, <<2876, 2884>>,
    <<2887, 2888>>, <<2891, 2893>>, <<2901, 2903>>, <<2908, 2909>>,
    <<2911, 2915>>, <<2918, 2927>>, <<2929, 2929>>, <<2946, 2947>>,
    <<2949, 2954>>, <<2958, 2960>>, <<2962, 2965>>, <<2969, 2970>>,
    <<2972, 2972>>, <<2974, 2975>>, <<2979, 2980>>, <<2984, 2986>>,
    <<2990, 3001>>, <<3006, 3010>>, <<3014, 3016>>, <<3018, 3021>>,
    <<3024, 3024>>, <<3031, 3031>>, <<3046, 3055>>, <<3072, 3084>>,
    <<3086, 3088>>, <<3090, 3112>>, <<3114, 3129>>, <<3132, 3140>>,
    <<3142, 3144>>, <<3146, 3149>>, <<3157, 3158>>, <<3160, 3162>>,
    <<3165, 3165>>, <<3168, 3171>>, <<3174, 3183>>, <<3200, 3203>>,
    <<3205, 3212>>, <<3214, 3216>>, <<3218, 3240>>, <<3242, 3251>>,
    <<3253, 3257>>, <<3260, 3268>>, <<3270, 3272>>, <<3274, 3277>>,
    <<3285, 3286>>, <<3293, 3294>>, <<3296, 3299>>, <<3302, 3311>>,
    <<3313, 3315>>, <<3328, 3340>>, <<3342, 3344>>, <<3346, 3396>>,
    <<3398, 3400>>, <<3402, 3406>>, <<3412, 3415>>, <<3423, 3427>>,
    <<3430, 3439>>, <<3450, 3455>>, <<3457, 3459>>, <<3461, 3478>>,
    <<3482, 3505>>, <<3507, 3515>>, <<3517, 3517>>, <<3520, 3526>>,
    <<3530, 3530>>, <<3535, 3540>>, <<3542, 3542>>, <<3544, 3551>>,
    <<3558, 3567>>, <<3570, 3571>>, <<3585, 3642>>, <<3648, 3662>>,
    <<3664, 3673>>, <<3713, 3714>>, <<3716, 3716>>, <<3718, 3722>>,
    <<3724, 3747>>, <<3749, 3749>>, <<3751, 3773>>, <<3776, 3780>>,
    <<3782, 3782>>, <<3784, 3790>>, <<3792, 3801>>, <<3804, 3807>>,
    <<3840, 3840>>, <<3864, 3865>>, <<3872, 3881>>, <<3893, 3893>>,
    <<3895, 3895>>, <<3897, 3897>>, <<3902, 3911>>, <<3913, 3948>>,
    <<3953, 3972>>, <<3974, 3991>>, <<3993, 4028>>, <<4038, 4038>>,
    <<4096, 4169>>, <<4176, 4253>>, <<4256, 4293>>, <<4295, 4295>>,
    <<4301, 4301>>, <<4304, 4346>>, <<4348, 4680>>, <<4682, 4685>>,
    <<4688, 4694>>, <<4696, 4696>>, <<4698, 4701>>, <<4704, 4744>>,
    <<4746, 4749>>, <<4752, 4784>>, <<4786, 4789>>, <<4792, 4798>>,
    <<4800, 4800>>, <<4802, 4805>>, <<4808, 4822>>, <<4824, 4880>>,
    <<4882, 4885>>, <<4888, 4954>>, <<4957, 4959>>, <<4992, 5007>>,
    <<5024, 5109>>, <<5112, 5117>>, <<5121, 5740>>, <<5743, 5759>>,
    <<5761, 5786>>, <<5792, 5866>>, <<5870, 5880>>, <<5888, 5909>>,
    <<5919, 5940>>, <<5952, 5971>>, <<5984, 5996>>, <<5998, 6000>>,
    <<6002, 6003>>, <<6016, 6099>>, <<6103, 6103>>, <<6108, 6109>>,
    <<6112, 6121>>, <<6155, 6157>>, <<6159, 6169>>, <<6176, 6264>>,
    <<6272, 6314>>, <<6320, 6389>>, <<6400, 6430>>, <<6432, 6443>>,
    <<6448, 6459>>, <<6470, 6509>>, <<6512, 6516>>, <<6528, 6571>>,
    <<6576, 6601>>, <<6608, 6617>>, <<6656, 6683>>, <<6688, 6750>>,
    <<6752, 6780>>, <<6783, 6793>>, <<6800, 6809>>, <<6823, 6823>>,
    <<6832, 6862>>, <<6912, 6988>>, <<6992, 7001>>, <<7019, 7027>>,
    <<7040, 7155>>, <<7168, 7223>>, <<7232, 7241>>, <<7245, 7293>>,
    <<7296, 7306>>, <<7312, 7354>>, <<7357, 7359>>, <<7376, 7378>>,
    <<7380, 7418>>, <<7424, 7957>>, <<7960, 7965>>, <<7968, 8005>>,
    <<8008, 8013>>, <<8016, 8023>>, <<8025, 8025>>, <<8027, 8027>>,
    <<8029, 8029>>, <<8031, 8061>>, <<8064, 8116>>, <<8118, 8124>>,
    <<8126, 8126>>, <<8130, 8132>>, <<8134, 8140>>, <<8144, 8147>>,
    <<8150, 8155>>, <<8160, 8172>>, <<8178, 8180>>, <<8182, 8188>>,
    <<8204, 8205>>, <<8255, 8256>>, <<8276, 8276>>, <<8305, 8305>>,
    <<8319, 8319>>, <<8336, 8348>>, <<8400, 8432>>, <<8450, 8450>>,
    <<8455, 8455>>, <<8458, 8467>>, <<8469, 8469>>, <<8473, 8477>>,
    <<8484, 8484>>, <<8486, 8486>>, <<8488, 8488>>, <<8490, 8493>>,
    <<8495, 8505>>, <<8508, 8511>>, <<8517, 8521>>, <<8526, 8526>>,
    <<8544, 8584>>, <<9398, 9449>>, <<11264, 11492>>, <<11499, 11507>>,
    <<11520, 11557>>, <<11559, 11559>>, <<11565, 11565>>, <<11568, 11623>>,
    <<11631, 11631>>, <<11647, 11670>>, <<11680, 11686>>, <<11688, 11694>>,
    <<11696, 11702>>, <<11704, 11710>>, <<11712, 11718>>, <<11720, 11726>>,
    <<11728, 11734>>, <<11736, 11742>>, <<11744, 11775>>, <<11823, 11823>>,
    <<12293, 12295>>, <<12321, 12335>>, <<12337, 12341>>, <<12344, 12348>>,
    <<12353, 12438>>, <<12441, 12442>>, <<12445, 12447>>, <<12449, 12538>>,
    <<12540, 12543>>, <<12549, 12591>>, <<12593, 12686>>, <<12704, 12735>>,
    <<12784, 12799>>, <<13312, 19903>>, <<19968, 42124>>, <<42192, 42237>>,
    <<42240, 42508>>, <<42512, 42539>>, <<42560, 42610>>, <<42612, 42621>>,
    <<42623, 42737>>, <<42775, 42783>>, <<42786, 42888>>, <<42891, 42957>>,
    <<42960, 42961>>, <<42963, 42963>>, <<42965, 42972>>, <<42994, 43047>>,
    <<43052, 43052>>, <<43072, 43123>>, <<43136, 43205>>, <<43216, 43225>>,
    <<43232, 43255>>, <<43259, 43259>>, <<43261, 43309>>, <<43312, 43347>>,
    <<43360, 43388>>, <<43392, 43456>>, <<43471, 43481>>, <<43488, 43518>>,
    <<43520, 43574>>, <<43584, 43597>>, <<43600, 43609>>, <<43616, 43638>>,
    <<43642, 43714>>, <<43739, 43741>>, <<43744, 43759>>, <<43762, 43766>>,
    <<43777, 43782>>, <<43785, 43790>>, <<43793, 43798>>, <<43808, 43814>>,
    <<43816, 43822>>, <<43824, 43866>>, <<43868, 43881>>, <<43888, 44010>>,
    <<44012, 44013>>, <<44016, 44025>>, <<44032, 55203>>, <<55216, 55238>>,
    <<55243, 55291>>, <<63744, 64109>>, <<64112, 64217>>, <<64256, 64262>>,
    <<64275, 64279>>, <<64285, 64296>>, <<64298, 64310>>, <<64312, 64316>>,
    <<64318, 64318>>, <<64320, 64321>>, <<64323, 64324>>, <<64326, 64433>>,
    <<64467, 64829>>, <<64848, 64911>>, <<64914, 64967>>, <<65008, 65019>>,
    <<65024, 65039>>, <<65056, 65071>>, <<65075, 65076>>, <<65101, 65103>>,
    <<65136, 65140>>, <<65142, 65276>>, <<65296, 65305>>, <<65313, 65338>>,
    <<65343, 65343>>, <<65345, 65370>>, <<65382, 65470>>, <<65474, 65479>>,
    <<65482, 65487>>, <<65490, 65495>>, <<65498, 65500>>, <<65536, 65547>>,
    <<65549, 65574>>, <<65576, 65594>>, <<65596, 65597>>, <<65599, 65613>>,
    <<65616, 65629>>, <<65664, 65786>>, <<65856, 65908>>, <<66045, 66045>>,
    <<66176, 66204>>, <<66208, 66256>>, <<66272, 66272>>, <<66304, 66335>>,
    <<66349, 66378>>, <<66384, 66426>>, <<66432, 66461>>, <<66464, 66499>>,
    <<66504, 66511>>, <<66513, 66517>>, <<66560, 66717>>, <<66720, 66729>>,
    <<66736, 66771>>, <<66776, 66811>>, <<66816, 66855>>, <<66864, 66915>>,
    <<66928, 66938>>, <<66940, 66954>>, <<66956, 66962>>, <<66964, 66965>>,
    <<66967, 66977>>, <<66979, 66993>>, <<66995, 67001>>, <<67003, 67004>>,
    <<67008, 67059>>, <<67072, 67382>>, <<67392, 67413>>, <<67424, 67431>>,
    <<67456, 67461>>, <<67463, 67504>>, <<67506, 67514>>, <<67584, 67589>>,
    <<67592, 67592>>, <<67594, 67637>>, <<67639, 67640>>, <<67644, 67644>>,
    <<67647, 67669>>, <<67680, 67702>>, <<67712, 67742>>, <<67808, 67826>>,
    <<67828, 67829>>, <<67840, 67861>>, <<67872, 67897>>, <<67968, 68023>>,
    <<68030, 68031>>, <<68096, 68099>>, <<68101, 68102>>, <<68108, 68115>>,
    <<68117, 68119>>, <<68121, 68149>>, <<68152, 68154>>, <<68159, 68159>>,
    <<68192, 68220>>, <<68224, 68252>>, <<68288, 68295>>, <<68297, 68326>>,
    <<68352, 68405>>, <<68416, 68437>>, <<68448, 68466>>, <<68480, 68497>>,
    <<68608, 68680>>, <<68736, 68786>>, <<68800, 68850>>, <<68864, 68903>>,
    <<68912, 68921>>, <<68928, 68965>>, <<68969, 68973>>, <<68975, 68997>>,
    <<69248, 69289>>, <<69291, 69292>>, <<69296, 69297>>, <<69314, 69316>>,
    <<69372, 69404>>, <<69415, 69415>>, <<69424, 69456>>, <<69488, 69509>>,
    <<69552, 69572>>, <<69600, 69622>>, <<69632, 69702>>, <<69734, 69749>>,
    <<69759, 69818>>, <<69826, 69826>>, <<69840, 69864>>, <<69872, 69881>>,
    <<69888, 69940>>, <<69942, 69951>>, <<69956, 69959>>, <<69968, 70003>>,
    <<70006, 70006>>, <<70016, 70084>>, <<70089, 70092>>, <<70094, 70106>>,
    <<70108, 70108>>, <<70144, 70161>>, <<70163, 70199>>, <<70206, 70209>>,
    <<70272, 70278>>, <<70280, 70280>>, <<70282, 70285>>, <<70287, 70301>>,
    <<70303, 70312>>, <<70320, 70378>>, <<70384, 70393>>, <<70400, 70403>>,
    <<70405, 70412>>, <<70415, 70416>>, <<70419, 70440>>, <<70442, 70448>>,
    <<70450, 70451>>, <<70453, 70457>>, <<70459, 70468>>, <<70471, 70472>>,
    <<70475, 70477>>, <<70480, 70480>>, <<70487, 70487>>, <<70493, 70499>>,
    <<70502, 70508>>, <<70512, 70516>>, <<70528, 70537>>, <<70539, 70539>>,
    <<70542, 70542>>, <<70544, 70581>>, <<70583, 70592>>, <<70594, 70594>>,
    <<70597, 70597>>, <<70599, 70602>>, <<70604, 70611>>, <<70625, 70626>>,
    <<70656, 70730>>, <<70736, 70745>>, <<70750, 70753>>, <<70784, 70853>>,
    <<70855, 70855>>, <<70864, 70873>>, <<71040, 71093>>, <<71096, 71104>>,
    <<71128, 71133>>, <<71168, 71232>>, <<71236, 71236>>, <<71248, 71257>>,
    <<71296, 71352>>, <<71360, 71369>>, <<71376, 71395>>, <<71424, 71450>>,
    <<71453, 71467>>, <<71472, 71481>>, <<71488, 71494>>, <<71680, 71738>>,
    <<71840, 71913>>, <<71935, 71942>>, <<71945, 71945>>, <<71948, 71955>>,
    <<71957, 71958>>, <<71960, 71989>>, <<71991, 71992>>, <<71995, 72003>>,
    <<72016, 72025>>, <<72096, 72103>>, <<72106, 72151>>, <<72154, 72161>>,
    <<72163, 72164>>, <<72192, 72254>>, <<72263, 72263>>, <<72272, 72345>>,
    <<72349, 72349>>, <<72368, 72440>>, <<72640, 72672>>, <<72688, 72697>>,
    <<72704, 72712>>, <<72714, 72758>>, <<72760, 72768>>, <<72784, 72793>>,
    <<72818, 72847>>, <<72850, 72871>>, <<72873, 72886>>, <<72960, 72966>>,
    <<72968, 72969>>, <<72971, 73014>>, <<73018, 73018>>, <<73020, 73021>>,
    <<73023, 73031>>, <<73040, 73049>>, <<73056, 73061>>, <<73063, 73064>>,
    <<73066, 73102>>, <<73104, 73105>>, <<73107, 73112>>, <<73120, 73129>>,
    <<73440, 73462>>, <<73472, 73488>>, <<73490, 73530>>, <<73534, 73538>>,
    <<73552, 73562>>, <<73648, 73648>>, <<73728, 74649>>, <<74752, 74862>>,
    <<74880, 75075>>, <<77712, 77808>>, <<77824, 78895>>, <<78912, 78933>>,
    <<78944, 82938>>, <<82944, 83526>>, <<90368, 90425>>, <<92160, 92728>>,
    <<92736, 92766>>, <<92768, 92777>>, <<92784, 92862>>, <<92864, 92873>>,
    <<92880, 92909>>, <<92912, 92916>>, <<92928, 92982>>, <<92992, 92995>>,
    <<93008, 93017>>, <<93027, 93047>>, <<93053, 93071>>, <<93504, 93548>>,
    <<93552, 93561>>, <<93760, 93823>>, <<93952, 94026>>, <<94031, 94087>>,
    <<94095, 94111>>, <<94176, 94177>>, <<94179, 94180>>, <<94192, 94193>>,
    <<94208, 100343>>, <<100352, 101589>>, <<101631, 101640>>,
    <<110576, 110579>>, <<110581, 110587>>, <<110589, 110590>>,
    <<110592, 110882>>, <<110898, 110898>>, <<110928, 110930>>,
    <<110933, 110933>>, <<110948, 110951>>, <<110960, 111355>>,
    <<113664, 113770>>, <<113776, 113788>>, <<113792, 113800>>,
    <<113808, 113817>>, <<113821, 113822>>, <<118000, 118009>>,
    <<118528, 118573>>, <<118576, 118598>>, <<119141, 119145>>,
    <<119149, 119154>>, <<119163, 119170>>, <<119173, 119179>>,
    <<119210, 119213>>, <<119362, 119364>>, <<119808, 119892>>,
    <<119894, 119964>>, <<119966, 119967>>, <<119970, 119970>>,
    <<119973, 119974>>, <<119977, 119980>>, <<119982, 119993>>,
    <<119995, 119995>>, <<119997, 120003>>, <<120005, 120069>>,
    <<120071, 120074>>, <<120077, 120084>>, <<120086, 120092>>,
    <<120094, 120121>>, <<120123, 120126>>, <<120128, 120132>>,
    <<120134, 120134>>, <<120138, 120144>>, <<120146, 120485>>,
    <<120488, 120512>>, <<120514, 120538>>, <<120540, 120570>>,
    <<120572, 120596>>, <<120598, 120628>>, <<120630, 120654>>,
    <<120656, 120686>>, <<120688, 120712>>, <<120714, 120744>>,
    <<120746, 120770>>, <<120772, 120779>>, <<120782, 120831>>,
    <<121344, 121398>>, <<121403, 121452>>, <<121461, 121461>>,
    <<121476, 121476>>, <<121499, 121503>>, <<121505, 121519>>,
    <<122624, 122654>>, <<122661, 122666>>, <<122880, 122886>>,
    <<122888, 122904>>, <<122907, 122913>>, <<122915, 122916>>,
    <<122918, 122922>>, <<122928, 122989>>, <<123023, 123023>>,
    <<123136, 123180>>, <<123184, 123197>>, <<123200, 123209>>,
    <<123214, 123214>>, <<123536, 123566>>, <<123584, 123641>>,
    <<124112, 124153>>, <<124368, 124410>>, <<124896, 124902>>,
    <<124904, 124907>>, <<124909, 124910>>, <<124912, 124926>>,
    <<124928, 125124>>, <<125136, 125142>>, <<125184, 125259>>,
    <<125264, 125273>>, <<126464, 126467>>, <<126469, 126495>>,
    <<126497, 126498>>, <<126500, 126500>>, <<126503, 126503>>,
    <<126505, 126514>>, <<126516, 126519>>, <<126521, 126521>>,
    <<126523, 126523>>, <<126530, 126530>>, <<126535, 126535>>,
    <<126537, 126537>>, <<126539, 126539>>, <<126541, 126543>>,
    <<126545, 126546>>, <<126548, 126548>>, <<126551, 126551>>,
    <<126553, 126553>>, <<126555, 126555>>, <<126557, 126557>>,
    <<126559, 126559>>, <<126561, 126562>>, <<126564, 126564>>,
    <<126567, 126570>>, <<126572, 126578>>, <<126580, 126583>>,
    <<126585, 126588>>, <<126590, 126590>>, <<126592, 126601>>,
    <<126603, 126619>>, <<126625, 126627>>, <<126629, 126633>>,
    <<126635, 126651>>, <<127280, 127305>>, <<127312, 127337>>,
    <<127344, 127369>>, <<130032, 130041>>, <<131072, 173791>>,
    <<173824, 177977>>, <<177984, 178205>>, <<178208, 183969>>,
    <<183984, 191456>>, <<191472, 192093>>, <<194560, 195101>>,
    <<196608, 201546>>, <<201552, 205743>>, <<917760, 917999>> }

\* The class with the space added.
IsWordCharSpace(c) ==
  c = 32 \/ \E r \in PerlWord : r[1] <= c /\ c <= r[2]

\* c is in the class \w.
IsWordChar(c) ==
  \E r \in PerlWord : r[1] <= c /\ c <= r[2]

NoMatch ==
  [found |-> FALSE, start |-> 0, end |-> 0]

\* A match of one word character only (a non-greedy \w).
find_at_short(s, from) ==
  LET starts == {i \in from..Len(s) : IsWordChar(s[i])}
  IN  IF starts = {} THEN NoMatch
      ELSE LET st == CHOOSE i \in starts : \A j \in starts : i <= j
           IN  [found |-> TRUE, start |-> st, end |-> st]

\* The next match of \w+ in s at or after index from: the leftmost word
\* character and the longest run of word characters from there.
find_at(s, from) ==
  LET starts == {i \in from..Len(s) : IsWordChar(s[i])}
  IN  IF starts = {} THEN NoMatch
      ELSE LET st == CHOOSE i \in starts : \A j \in starts : i <= j
               ends == {j \in st..Len(s) : \A k \in st..j : IsWordChar(s[k])}
           IN  [found |-> TRUE, start |-> st,
                end |-> CHOOSE j \in ends : \A k \in ends : k <= j]

(***************************************************************************)
(* The table.                                                              *)
(***************************************************************************)
\* A table that starts with an entry.
NewTableDirty ==
  [k \in {<<>>} |-> 1]

\* HashMap::new()
NewTable ==
  [k \in {} |-> 0]

\* freqs.insert(key, 1): an existing count is overwritten.
entry_insert_one(f, key) ==
  [k \in (DOMAIN f) \cup {key} |-> IF k = key THEN 1 ELSE f[k]]

\* or_insert(1) followed by += 1.
entry_incr_from_one(f, key) ==
  [k \in (DOMAIN f) \cup {key} |->
     IF k = key THEN (IF key \in DOMAIN f THEN f[key] ELSE 1) + 1 ELSE f[k]]

\* *freqs.entry(key).or_insert(0) += 1
entry_incr(f, key) ==
  [k \in (DOMAIN f) \cup {key} |->
     IF k = key THEN (IF key \in DOMAIN f THEN f[key] ELSE 0) + 1 ELSE f[k]]

(***************************************************************************)
(* count as a function of the input: the table it returns, the panic, or   *)
(* the call that never ends.                                               *)
(***************************************************************************)
\* The inner loop of one line, resumed at iterator position from.
RECURSIVE count_line(_, _, _, _)
count_line(f, s, from, opt) ==
  IF opt = "Char"
  THEN IF from > Len(s) THEN f
       ELSE count_line(entry_incr(f, <<s[from]>>), s, from + 1, opt)
  ELSE IF opt = "Word"
  THEN LET m == find_at(s, from)
       IN  IF ~m.found THEN f
           ELSE count_line(entry_incr(f, SubSeq(s, m.start, m.end)), s,
                           m.end + 1, opt)
  ELSE entry_incr(f, s)

RECURSIVE count_from(_, _, _, _, _, _, _)
count_from(bs, fl, n, ft, p, opt, f) ==
  LET l == lines_next(bs, fl, n, ft, p)
  IN  IF l.kind = "none" THEN [outcome |-> "returned", table |-> f]
      ELSE IF l.kind = "err" THEN [outcome |-> "panicked", table |-> NewTable]
      ELSE IF l.kind = "interrupted"
      THEN IF n = Forever THEN [outcome |-> "never", table |-> NewTable]
           ELSE count_from(bs, fl, n - 1, ft, p, opt, f)
      ELSE count_from(bs, fl, n, ft, l.pos, opt, count_line(f, l.line, 1, opt))

\* count on the source of bytes bs that fails after fl bytes with n
\* Interrupted errors and then, if ft, an error of another kind.
count(bs, fl, n, ft, opt) ==
  count_from(bs, fl, n, ft, 0, opt, NewTable)

(***************************************************************************)
(* count as a state machine: one step per line read and per token counted. *)
(*   pc = "start"     count has not been called yet                        *)
(*   pc = "lines"     at the head of `for line in input.lines()`; a call   *)
(*                    whose source returns Interrupted forever stays here  *)
(*   pc = "match"     inside the match arm of the current line             *)
(*   pc = "returned"  count has returned result[1]                         *)
(*   pc = "panicked"  line.unwrap() has panicked; nothing is returned      *)
(***************************************************************************)
\* Before the call: no arguments bound yet.
Init ==
  /\ input = <<>>
  /\ fail = NoFail
  /\ intr = 0
  /\ fatal = FALSE
  /\ option = "Word"
  /\ pos = 0
  /\ line = <<>>
  /\ at = 1
  /\ freqs = NewTable
  /\ pc = "start"
  /\ result = <<>>

\* count(input, option) is entered: the arguments are bound and the table is
\* created empty.
Call ==
  /\ pc = "start"
  /\ input' \in Inputs
  /\ fail' \in FailPoints(input')
  /\ \E k \in FailKinds :
       /\ intr' = (IF fail' = NoFail THEN 0 ELSE k[1])
       /\ fatal' = (fail' # NoFail /\ k[2])
  /\ option' \in CountOption
  /\ freqs' = NewTable
  /\ pc' = "lines"
  /\ UNCHANGED <<pos, line, at, result>>

\* The iterator yields Ok(line): bind it and enter the match.
NextLine ==
  /\ pc = "lines"
  /\ \E l \in {lines_next(input, fail, intr, fatal, pos)} :
       /\ l.kind = "ok"
       /\ line' = l.line
       /\ pos' = l.pos
  /\ at' = 1
  /\ pc' = "match"
  /\ UNCHANGED <<input, fail, intr, fatal, option, freqs, result>>

\* read_until gets an error of kind Interrupted from the source and tries
\* again; a source that returns Interrupted forever keeps it here.
Interrupted ==
  /\ pc = "lines"
  /\ lines_next(input, fail, intr, fatal, pos).kind = "interrupted"
  /\ intr' = (IF intr = Forever THEN Forever ELSE intr - 1)
  /\ UNCHANGED <<input, fail, fatal, option, pos, line, at, freqs, pc, result>>

\* An Err skipped instead of unwrapped.
UnwrapSkip ==
  /\ pc = "lines"
  /\ \E l \in {lines_next(input, fail, intr, fatal, pos)} :
       /\ l.kind = "err"
       /\ pos' = l.pos
  /\ UNCHANGED <<input, fail, intr, fatal, option, line, at, freqs, pc, result>>

\* The iterator yields Err (malformed UTF-8, or a read that failed with an
\* error of another kind than Interrupted): line.unwrap()
\* panics and count returns nothing.
UnwrapPanic ==
  /\ pc = "lines"
  /\ \E l \in {lines_next(input, fail, intr, fatal, pos)} :
       /\ l.kind = "err"
       /\ pos' = l.pos
  /\ pc' = "panicked"
  /\ UNCHANGED <<input, fail, intr, fatal, option, line, at, freqs, result>>

\* Char arm, one iteration of `for c in line.chars()` counting two chars.
CountCharSkip ==
  /\ pc = "match"
  /\ option = "Char"
  /\ at <= Len(line)
  /\ freqs' = entry_incr(freqs, <<line[at]>>)
  /\ at' = at + 2
  /\ UNCHANGED <<input, fail, intr, fatal, option, pos, line, pc, result>>

\* Char arm, one iteration of `for c in line.chars()`.
CountChar ==
  /\ pc = "match"
  /\ option = "Char"
  /\ at <= Len(line)
  /\ freqs' = entry_incr(freqs, <<line[at]>>)
  /\ at' = at + 1
  /\ UNCHANGED <<input, fail, intr, fatal, option, pos, line, pc, result>>

\* Word arm, one iteration of `for m in re.find_iter(&line)`.
CountWord ==
  /\ pc = "match"
  /\ option = "Word"
  /\ \E m \in {find_at(line, at)} :
       /\ m.found
       /\ freqs' = entry_incr(freqs, SubSeq(line, m.start, m.end))
       /\ at' = m.end + 1
  /\ UNCHANGED <<input, fail, intr, fatal, option, pos, line, pc, result>>

\* Line arm: the whole line is the token.
CountLine ==
  /\ pc = "match"
  /\ option = "Line"
  /\ freqs' = entry_incr(freqs, line)
  /\ pc' = "lines"
  /\ UNCHANGED <<input, fail, intr, fatal, option, pos, line, at, result>>

\* The inner iterator of the Char or Word arm is exhausted.
EndOfLine ==
  /\ pc = "match"
  /\ \/ option = "Char" /\ at > Len(line)
     \/ option = "Word" /\ ~find_at(line, at).found
  /\ pc' = "lines"
  /\ UNCHANGED <<input, fail, intr, fatal, option, pos, line, at, freqs, result>>

\* input.lines() yields None: count returns freqs.
Return ==
  /\ pc = "lines"
  /\ lines_next(input, fail, intr, fatal, pos).kind = "none"
  /\ pc' = "returned"
  /\ result' = <<freqs>>
  /\ UNCHANGED <<input, fail, intr, fatal, option, pos, line, at, freqs>>

Next ==
  \/ Call
  \/ Interrupted
  \/ NextLine
  \/ UnwrapPanic
  \/ CountChar
  \/ CountWord
  \/ CountLine
  \/ EndOfLine
  \/ Return

Spec ==
  Init /\ [][Next]_vars

\* count is synchronous and single-threaded: it keeps running until it
\* returns or panics; the retries of a read that is interrupted forever
\* change nothing.
FairSpec ==
  Init /\ [][Next]_vars /\ WF_vars(Next)

\* The call is retrying a read that is interrupted forever.
Hangs ==
  /\ pc = "lines"
  /\ intr = Forever
  /\ lines_next(input, fail, intr, fatal, pos).kind = "interrupted"

\* The machine returns what the function computes.
ReturnsCount ==
  /\ pc = "returned" =>
       /\ count(input, fail, intr, fatal, option).outcome = "returned"
       /\ result = <<count(input, fail, intr, fatal, option).table>>
  /\ pc = "panicked" =>
       count(input, fail, intr, fatal, option).outcome = "panicked"
  /\ Hangs => count(input, fail, intr, fatal, option).outcome = "never"
  /\ (pc # "start" /\ count(input, fail, intr, fatal, option).outcome = "never") =>
       (intr = Forever /\ pc \in {"lines", "match"})

\* Every call ends, unless its source interrupts a read forever.
Terminates ==
  <>(pc \in {"returned", "panicked"} \/ Hangs)

\* Every call ends.
AlwaysEnds ==
  <>(pc \in {"returned", "panicked"})

TypeOK ==
  /\ pc \in {"start", "lines", "match", "returned", "panicked"}
  /\ pos \in 0..Len(input)
  /\ fail \in FailPoints(input)
  /\ intr \in {Forever} \cup (0..MaxIntr)
  /\ fatal \in BOOLEAN
  /\ fail = NoFail => (intr = 0 /\ ~fatal)
  /\ (fail # NoFail /\ (fatal \/ intr # 0)) => pos <= fail
  /\ Len(result) <= 1
  /\ (pc = "returned") <=> (Len(result) = 1)

(***************************************************************************)
(* The input as the specification describes it: lines are the stretches of *)
(* the source between "\n" bytes, a last stretch without "\n" included;    *)
(* the text of a line is its content without the "\n" or "\r\n" that ends  *)
(* it.  A line is named by the index of its first byte.                    *)
(***************************************************************************)
LineStarts ==
  {s \in 1..Len(input) : s = 1 \/ input[s - 1] = 10}

Terminated(s) ==
  \E i \in s..Len(input) : input[i] = 10

LineLast(s) ==
  IF Terminated(s)
  THEN CHOOSE i \in s..Len(input) :
         input[i] = 10 /\ \A j \in s..(i - 1) : input[j] # 10
  ELSE Len(input)

RawLine(s) ==
  SubSeq(input, s, LineLast(s))

ContentBytes(s) ==
  IF ~Terminated(s) THEN RawLine(s)
  ELSE IF LineLast(s) > s /\ input[LineLast(s) - 1] = 13
       THEN SubSeq(input, s, LineLast(s) - 2)
       ELSE SubSeq(input, s, LineLast(s) - 1)

LineValid(s) ==
  from_utf8(RawLine(s)).ok

AllLinesValid ==
  \A s \in LineStarts : LineValid(s)

LineText(s) ==
  from_utf8(ContentBytes(s)).s

\* Character classes, given for the scripts that occur in the inputs: Latin,
\* Greek, Hiragana and Cyrillic Extended-C letters, ASCII and Arabic-Indic
\* digits, the combining
\* diacritical marks, connector punctuation and the two join controls.
Digit(c) ==
  \/ c >= 48 /\ c <= 57
  \/ c >= 1632 /\ c <= 1641

Letter(c) ==
  \/ c >= 65 /\ c <= 90
  \/ c >= 97 /\ c <= 122
  \/ c = 170 \/ c = 181 \/ c = 186
  \/ c >= 192 /\ c <= 214
  \/ c >= 216 /\ c <= 246
  \/ c >= 248 /\ c <= 705
  \/ c >= 913 /\ c <= 929
  \/ c >= 931 /\ c <= 969
  \/ c >= 12353 /\ c <= 12438
  \/ c >= 7296 /\ c <= 7306

Mark(c) ==
  c >= 768 /\ c <= 879

ConnectorPunctuation(c) ==
  c \in {95, 8255, 8256, 8276, 65343}

JoinControl(c) ==
  c \in {8204, 8205}

\* Letters, digits and the underscore.
LetterDigitUnderscore(c) ==
  Letter(c) \/ Digit(c) \/ c = 95

\* The class \w: alphabetic characters, marks, decimal digits, connector
\* punctuation (the underscore among it) and join controls.
WordCharacter(c) ==
  Letter(c) \/ Mark(c) \/ Digit(c) \/ ConnectorPunctuation(c) \/ JoinControl(c)

\* The maximal runs of characters of class W of a text, as <<first, last>>.
WordRunsBy(t, W(_)) ==
  {r \in (1..Len(t)) \X (1..Len(t)) :
     /\ r[1] <= r[2]
     /\ \A k \in r[1]..r[2] : W(t[k])
     /\ r[1] = 1 \/ ~W(t[r[1] - 1])
     /\ r[2] = Len(t) \/ ~W(t[r[2] + 1])}

WordRuns(t) ==
  WordRunsBy(t, WordCharacter)

\* The token occurrences of the input in each mode.
WordOccurrences ==
  UNION {{<<s, r[1], r[2]>> : r \in WordRuns(LineText(s))} : s \in LineStarts}

WordOf(o) ==
  SubSeq(LineText(o[1]), o[2], o[3])

CharOccurrences ==
  UNION {{<<s, i>> : i \in 1..Len(LineText(s))} : s \in LineStarts}

CharOf(o) ==
  <<LineText(o[1])[o[2]]>>

\* The occurrences of maximal runs of letters, digits and underscores.
LduOccurrences ==
  UNION {{<<s, r[1], r[2]>> : r \in WordRunsBy(LineText(s), LetterDigitUnderscore)} :
           s \in LineStarts}

LduTable ==
  [w \in {WordOf(o) : o \in LduOccurrences} |->
     Cardinality({o \in LduOccurrences : WordOf(o) = w})]

\* The tables that map each token to its number of occurrences.
WordTable ==
  [w \in {WordOf(o) : o \in WordOccurrences} |->
     Cardinality({o \in WordOccurrences : WordOf(o) = w})]

CharTable ==
  [c \in {CharOf(o) : o \in CharOccurrences} |->
     Cardinality({o \in CharOccurrences : CharOf(o) = c})]

LineTable ==
  [t \in {LineText(s) : s \in LineStarts} |->
     Cardinality({s \in LineStarts : LineText(s) = t})]

EmptyTable ==
  [k \in {} |-> 0]

RECURSIVE SumOver(_, _)
SumOver(f, S) ==
  IF S = {} THEN 0
  ELSE LET k == CHOOSE x \in S : TRUE IN f[k] + SumOver(f, S \ {k})

TableSum(f) ==
  SumOver(f, DOMAIN f)

Returned ==
  pc = "returned" /\ Len(result) = 1

\* g is f with the entry of key k raised by one (created at 1 if absent) and
\* every other entry as it was.
IsRaised(f, g, k) ==
  /\ DOMAIN g = (DOMAIN f) \cup {k}
  /\ g[k] = (IF k \in DOMAIN f THEN f[k] ELSE 0) + 1
  /\ \A j \in DOMAIN f : j # k => g[j] = f[j]

\* The key-wise sum of two tables.
Merge(f, g) ==
  [k \in (DOMAIN f) \cup (DOMAIN g) |->
     (IF k \in DOMAIN f THEN f[k] ELSE 0) + (IF k \in DOMAIN g THEN g[k] ELSE 0)]

\* k occurs in t as a contiguous stretch.
IsStretchOf(k, t) ==
  \E i \in 1..(Len(t) + 1) :
    i + Len(k) - 1 <= Len(t) /\ SubSeq(t, i, i + Len(k) - 1) = k

(***************************************************************************)
(* C1 as stated.  Word mode on an input whose lines are all valid UTF-8:   *)
(* the returned table has exactly the distinct maximal runs of letters,    *)
(* digits and underscores of the lines as keys, each mapped to its number  *)
(* of occurrences.                                                         *)
(***************************************************************************)
C1_LettersDigitsUnderscore ==
  (Returned /\ option = "Word" /\ AllLinesValid) => result[1] = LduTable

(***************************************************************************)
(* C1 as amended.  Word mode on an input whose lines are all valid UTF-8:  *)
(* the returned table has exactly the distinct maximal runs of characters  *)
(* of the class \w (alphabetic characters, combining marks, decimal        *)
(* digits, connector punctuation such as the underscore, join controls)    *)
(* as keys, each mapped to its number of occurrences, keys compared code   *)
(* point for code point; "aa bb cc bb" gives {"aa": 1, "bb": 2, "cc": 1}.  *)
(***************************************************************************)
C1_WordTable ==
  /\ (Returned /\ option = "Word" /\ AllLinesValid) => result[1] = WordTable
  /\ (Returned /\ option = "Word" /\ input = DocExample) =>
       result[1] = [w \in {<<97, 97>>, <<98, 98>>, <<99, 99>>} |->
                      IF w = <<98, 98>> THEN 2 ELSE 1]

C1_Witness ==
  /\ Returned
  /\ option = "Word"
  /\ input = <<101, 204, 129, 32, 101>>
  /\ result[1] = [w \in {<<101, 769>>, <<101>>} |-> 1]

(***************************************************************************)
(* C2.  If a line of the input is not valid UTF-8, count panics in every   *)
(* mode: it never returns a table, not even the table built from the       *)
(* lines before the malformed one, and it never goes on after reading the  *)
(* malformed line.                                                         *)
(***************************************************************************)
C2_InvalidLinePanics ==
  /\ (~AllLinesValid /\ pc # "start") => (pc # "returned" /\ result = <<>>)
  /\ pc = "panicked" => result = <<>>
  /\ \A s \in LineStarts :
       (~LineValid(s) /\ pos >= LineLast(s)) => pc = "panicked"

C2_Witness ==
  /\ pc = "panicked"
  /\ fail = NoFail
  /\ freqs # EmptyTable
  /\ result = <<>>
  /\ \E s \in LineStarts : s > 1 /\ ~LineValid(s) /\ pos = LineLast(s)

(***************************************************************************)
(* C3.  The values of the returned table sum to the number of tokens of    *)
(* the mode in the input: maximal word runs for Word, scalar values of the *)
(* line texts for Char, lines (empty ones included) for Line.              *)
(***************************************************************************)
C3_SumIsTokenCount ==
  Returned =>
    TableSum(result[1]) =
      (IF option = "Word" THEN Cardinality(WordOccurrences)
       ELSE IF option = "Char" THEN Cardinality(CharOccurrences)
       ELSE Cardinality(LineStarts))

C3_Witness ==
  /\ Returned
  /\ option = "Line"
  /\ input = <<10, 97, 10, 10>>
  /\ TableSum(result[1]) = 3

(***************************************************************************)
(* C4.  Line mode: the returned table maps each distinct line text (the    *)
(* "\n" or "\r\n" terminator stripped) to the number of lines with that    *)
(* text; a "\r\n" line and a "\n" line of the same text share a key, and a *)
(* last line without terminator is counted.  Two lines "hello" give        *)
(* exactly {"hello": 2}.                                                   *)
(***************************************************************************)
C4_LineTable ==
  /\ (Returned /\ option = "Line") => result[1] = LineTable
  /\ (Returned /\ option = "Line"
        /\ input = <<104, 101, 108, 108, 111, 10, 104, 101, 108, 108, 111>>) =>
       result[1] = [t \in {<<104, 101, 108, 108, 111>>} |-> 2]

C4_Witness ==
  /\ Returned
  /\ option = "Line"
  /\ input = <<97, 13, 10, 97>>
  /\ result[1] = [t \in {<<97>>} |-> 2]

(***************************************************************************)
(* C5.  Char mode: the keys of the returned table are exactly the          *)
(* one-scalar strings of the scalar values of the line texts, each mapped  *)
(* to its number of occurrences; every key is one code point long and the  *)
(* "\n" terminator is never a key.  The line "ab" gives {"a": 1, "b": 1}.  *)
(***************************************************************************)
C5_CharTable ==
  /\ (Returned /\ option = "Char") =>
       /\ result[1] = CharTable
       /\ \A k \in DOMAIN result[1] : Len(k) = 1 /\ k # <<10>>
  /\ (Returned /\ option = "Char" /\ input = <<97, 98>>) =>
       result[1] = [c \in {<<97>>, <<98>>} |-> 1]

C5_Witness ==
  /\ Returned
  /\ option = "Char"
  /\ input = <<195, 169, 10, 97>>
  /\ result[1] = [c \in {<<233>>, <<97>>} |-> 1]

(***************************************************************************)
(* C6 as stated.  Word mode, a word character being a letter, a digit or   *)
(* the underscore and everything else (spaces, punctuation) a non-word     *)
(* character: processing a line made only of non-word characters leaves    *)
(* the table as it is; the empty string is never a key and no key contains *)
(* a non-word character.                                                   *)
(***************************************************************************)
C6_PunctuationAddsNothing ==
  /\ [](option = "Word" =>
          \A k \in DOMAIN freqs :
            k # <<>> /\ \A i \in 1..Len(k) : LetterDigitUnderscore(k[i]))
  /\ [][(option = "Word" /\ pc = "match"
           /\ \A i \in 1..Len(line) : ~LetterDigitUnderscore(line[i]))
        => freqs' = freqs]_vars

(***************************************************************************)
(* C6 as amended.  Word mode, a non-word character being one outside the   *)
(* class \w (combining marks, connector punctuation and join controls are  *)
(* word characters): processing a line made only of non-word characters    *)
(* leaves the table as it is; the empty string is never a key and no key   *)
(* contains a non-word character.                                          *)
(***************************************************************************)
C6_SeparatorsAddNothing ==
  /\ [](option = "Word" =>
          \A k \in DOMAIN freqs :
            k # <<>> /\ \A i \in 1..Len(k) : WordCharacter(k[i]))
  /\ [][(option = "Word" /\ pc = "match"
           /\ \A i \in 1..Len(line) : ~WordCharacter(line[i]))
        => freqs' = freqs]_vars

C6_Witness ==
  /\ Returned
  /\ option = "Word"
  /\ input = <<32, 13, 10, 32>>
  /\ result[1] = EmptyTable

(***************************************************************************)
(* C7.  A source that yields nothing (no bytes, and its read reports the   *)
(* end, at once or after Interrupted errors that are retried): count does  *)
(* not panic, never enters the loop body and returns the empty table, in   *)
(* each mode.                                                              *)
(***************************************************************************)
C7_EmptyInput ==
  (input = <<>> /\ ~fatal /\ intr # Forever /\ pc # "start") =>
    /\ pc # "panicked"
    /\ pc # "match"
    /\ pc = "returned" => result = <<EmptyTable>>

C7_Witness ==
  /\ input = <<>>
  /\ option = "Line"
  /\ ~fatal
  /\ pc = "returned"
  /\ result = <<EmptyTable>>

(***************************************************************************)
(* C8.  The table starts empty; a step that processes a token occurrence   *)
(* raises the entry of that token by exactly one (creating it at 1) and    *)
(* leaves the other entries alone, and no other step changes the table; no *)
(* entry is ever below 1.                                                  *)
(***************************************************************************)
TokenPending ==
  /\ pc = "match"
  /\ \/ option = "Char" /\ at <= Len(line)
     \/ option = "Word" /\ \E i \in at..Len(line) : WordCharacter(line[i])
     \/ option = "Line"

PendingToken ==
  IF option = "Char" THEN <<line[at]>>
  ELSE IF option = "Line" THEN line
  ELSE LET r == CHOOSE r \in WordRuns(line) :
                  r[2] >= at /\ \A q \in WordRuns(line) : q[2] >= at => r[1] <= q[1]
       IN  SubSeq(line, r[1], r[2])

C8_CountsRaisedByOne ==
  /\ []((pc = "lines" /\ pos = 0) => freqs = EmptyTable)
  /\ [](\A k \in DOMAIN freqs : freqs[k] >= 1)
  /\ [][/\ TokenPending => IsRaised(freqs, freqs', PendingToken)
        /\ ~TokenPending => freqs' = freqs
        /\ \A k \in DOMAIN freqs : k \in DOMAIN freqs' /\ freqs'[k] >= freqs[k]]_vars

C8_Witness ==
  /\ option = "Word"
  /\ pc = "match"
  /\ at > 1
  /\ \E k \in DOMAIN freqs : freqs[k] = 2
  /\ \E k \in DOMAIN freqs : freqs[k] = 1

(***************************************************************************)
(* C9.  Lines are counted independently: cutting the input after any line  *)
(* gives two inputs whose tables sum key-wise to the table of the whole;   *)
(* in Word and Char mode every key is a stretch of a single line.          *)
(***************************************************************************)
CutPoints ==
  {i \in 0..Len(input) : i = 0 \/ i = Len(input) \/ input[i] = 10}

C9_LinesIndependent ==
  Returned =>
    /\ \A i \in CutPoints :
         LET a == count(SubSeq(input, 1, i), NoFail, 0, FALSE, option)
             b == count(SubSeq(input, i + 1, Len(input)), NoFail, 0, FALSE, option)
         IN  /\ a.outcome = "returned"
             /\ b.outcome = "returned"
             /\ result[1] = Merge(a.table, b.table)
    /\ \A k \in DOMAIN result[1] :
         \E s \in LineStarts : IsStretchOf(k, LineText(s))

C9_Witness ==
  /\ Returned
  /\ option = "Word"
  /\ input = <<97, 10, 97, 65>>
  /\ result[1] = [w \in {<<97>>, <<97, 65>>} |-> 1]

(***************************************************************************)
(* C10.  A call ends either returned with all lines consumed or panicked   *)
(* with no result, and it panics only if some line of the input is not     *)
(* valid UTF-8: every input whose lines are all valid is consumed to the   *)
(* end and a table is returned.  (A read of the source that fails with an  *)
(* error of another kind than Interrupted panics as well.)                 *)
(***************************************************************************)
C10_PanicsOnlyOnInvalidUtf8 ==
  /\ pc = "panicked" => (~AllLinesValid /\ result = <<>>)
  /\ pc = "returned" => (pos = Len(input) /\ Len(result) = 1 /\ AllLinesValid)

====
